---- MODULE Spec2Model ----
(***************************************************************************)
(* Model of splitNSP.py: splitting a file into fixed-size parts (copy mode *)
(* and quick, in-place mode) and joining the parts again.                  *)
(*                                                                         *)
(* Sizes are scaled: the source has splitSize = 0xFFFF0000 and chunkSize = *)
(* 0x8000, so splitSize is a whole number of chunks (131070 of them).  The *)
(* model keeps that relation with splitSize = 2 chunks of 2 bytes.  A file *)
(* is a sequence of bytes; byte k of the input file carries the label k,   *)
(* so that a lost, duplicated or reordered byte changes the sequence (the  *)
(* code never inspects a byte's value).  Paths and names are sequences of  *)
(* one-character strings so that slicing, rstrip, fnmatch and sorted can   *)
(* be modelled character by character.                                     *)
(***************************************************************************)
EXTENDS Integers, Sequences, FiniteSets, TLC

splitSize == 4
chunkSize == 2

\* Largest input file, and the number of command runs / directory changes.
MaxFileSize == 42
MaxOps == 3

----------------------------------------------------------------------------
(* Characters, names and paths                                             *)

Ext == <<".", "n", "s", "p">>
SplitSuffix == <<"_", "s", "p", "l", "i", "t">> \o Ext
MountA == <<"/", "a">>
MountB == <<"/", "b">>
Game == MountA \o <<"/", "g", "a", "m", "e">> \o Ext
Tetris == MountA \o <<"/", "t", "e", "t", "r", "i", "s">> \o Ext
OutDirArg == MountB \o <<"/", "o", "u", "t">>
NoOutDir == <<>>

\* The characters rstrip("_split.nsp") removes.
StripChars == {"_", "s", "p", "l", "i", "t", ".", "n"}

Digits == <<"0", "1", "2", "3", "4", "5", "6", "7", "8", "9">>

\* ASCII code of the characters that occur in directory entry names.
Ord(c) ==
  CASE c = "," -> 44
    [] c = "0" -> 48 [] c = "1" -> 49 [] c = "2" -> 50 [] c = "3" -> 51
    [] c = "4" -> 52 [] c = "5" -> 53 [] c = "6" -> 54 [] c = "7" -> 55
    [] c = "8" -> 56 [] c = "9" -> 57
    [] c = "a" -> 97 [] c = "f" -> 102 [] c = "i" -> 105
    [] c = "n" -> 110 [] c = "o" -> 111

Min(a, b) == IF a < b THEN a ELSE b

\* '{:02}'.format(i)
Format02(i) ==
  IF i < 10 THEN <<"0", Digits[i + 1]>>
  ELSE IF i < 100 THEN <<Digits[(i \div 10) + 1], Digits[(i % 10) + 1]>>
  ELSE <<Digits[(i \div 100) + 1], Digits[((i \div 10) % 10) + 1], Digits[(i % 10) + 1]>>

\* filepath[:-4] + '_split.nsp'
SplitDirOf(filepath) == SubSeq(filepath, 1, Len(filepath) - 4) \o SplitSuffix

\* output_dir, with '.nsp' appended unless it ends in it
OutputDirOf(output_dir) ==
  IF SubSeq(output_dir, Len(output_dir) - 3, Len(output_dir)) # Ext
  THEN output_dir \o Ext ELSE output_dir

\* str.rstrip(chars): drops trailing characters while they are in chars
RECURSIVE RStrip(_, _)
RStrip(s, chars) ==
  IF s # <<>> /\ s[Len(s)] \in chars
  THEN RStrip(SubSeq(s, 1, Len(s) - 1), chars) ELSE s

\* splitDir.rstrip("_split.nsp") + ".nsp"
JoinFilename(splitDir) == RStrip(splitDir, StripChars) \o Ext

\* os.path.dirname(os.path.abspath(p)) for the absolute paths of the model
RECURSIVE Dirname(_)
Dirname(p) ==
  IF p = <<>> THEN <<>>
  ELSE IF p[Len(p)] = "/" THEN SubSeq(p, 1, Len(p) - 1)
  ELSE Dirname(SubSeq(p, 1, Len(p) - 1))

\* fnmatch.fnmatch(name, "[0,9]*"): first character is '0', ',' or '9'
FnMatch(name) == name # <<>> /\ name[1] \in {"0", ",", "9"}

\* string comparison a < b
RECURSIVE StrLess(_, _)
StrLess(a, b) ==
  IF b = <<>> THEN FALSE
  ELSE IF a = <<>> THEN TRUE
  ELSE IF Ord(Head(a)) # Ord(Head(b)) THEN Ord(Head(a)) < Ord(Head(b))
  ELSE StrLess(Tail(a), Tail(b))

\* sorted(names)
RECURSIVE Sorted(_)
Sorted(S) ==
  IF S = {} THEN <<>>
  ELSE LET m == CHOOSE x \in S : \A y \in S \ {x} : StrLess(x, y)
       IN <<m>> \o Sorted(S \ {m})

\* sum of os.path.getsize over the regular files of a directory
RECURSIVE TotalSize(_)
TotalSize(d) ==
  IF DOMAIN d = {} THEN 0
  ELSE LET n == CHOOSE x \in DOMAIN d : TRUE
       IN Len(d[n]) + TotalSize([x \in DOMAIN d \ {n} |-> d[x]])

\* file.read(chunkSize) at position pos: at most chunkSize bytes, fewer at
\* end of file
Read(content, pos) == SubSeq(content, pos + 1, Min(pos + chunkSize, Len(content)))

LoopTestInclusive(partSize, limit) == partSize <= limit

\* the test of every transfer loop: while partSize < limit
LoopTest(partSize, limit) == partSize < limit

\* seek(-n, SEEK_END): the position n bytes before the end
SeekEnd(content, n) == Len(content) - n

\* truncate() at position p
Truncate(content, p) == SubSeq(content, 1, p)

\* the value main() returns: 1 when the input is missing, None otherwise
MainReturn(missing) == IF missing THEN 1 ELSE 0

\* `main()` is called as a statement: its return value is dropped and the
\* interpreter exits with status 0
ProcessExit(ret) == 0

----------------------------------------------------------------------------
(* State                                                                   *)

VARIABLES
  files,     \* regular files outside split directories: path -> bytes
  dirs,      \* split directories: path -> (entry name -> bytes)
  free,      \* shutil.disk_usage(mount).free, per mount
  pc,        \* position of the running command, "idle" between commands
  loc,       \* the running function's local variables
  orig,      \* bytes of the input file when the split command started
  mutated,   \* the running command has changed the filesystem
  outcome,   \* how the last command ended
  exitCode,  \* process exit status of the last command, -1 while running
  copyRes,   \* the parts directory as the last complete copy-mode split left it
  ops,       \* commands run and directory changes so far
  joined     \* entry names the running join has transferred, in order

vars == <<files, dirs, free, pc, loc, orig, mutated, outcome, exitCode, copyRes, ops, joined>>

FreeVals == {0, splitSize, 2 * (MaxFileSize + 1)}
InputPaths == {Game, Tetris}
SplitDirs == {SplitDirOf(Game), SplitDirOf(Tetris), OutputDirOf(OutDirArg)}
StrayNames == {<<"i", "n", "f", "o">>, <<"0", "a">>}
StrayContent == <<0>>

NoLoc ==
  [mode |-> "none", filepath |-> <<>>, dir |-> <<>>, fileSize |-> 0,
   splitNum |-> 0, remainingSize |-> 0, finalSplitSize |-> 0, i |-> 0,
   partSize |-> 0, pos |-> 0, outFile |-> <<>>, names |-> <<>>,
   filename |-> <<>>, totalFileSize |-> 0]

NoCopy == [valid |-> FALSE, orig |-> <<>>, dir |-> <<>>, parts |-> <<>>, src |-> <<>>]

Init ==
  /\ \E p \in InputPaths, n \in 0..MaxFileSize :
       files = (p :> [k \in 1..n |-> k])
  /\ dirs = <<>>
  /\ free \in [{MountA, MountB} -> FreeVals]
  /\ pc = "idle"
  /\ loc = NoLoc
  /\ orig = <<>>
  /\ mutated = FALSE
  /\ outcome = "none"
  /\ exitCode = 0
  /\ copyRes = NoCopy
  /\ ops = 0
  /\ joined = <<>>

isfile(p) == p \in DOMAIN files
exists(p) == p \in DOMAIN files \/ p \in DOMAIN dirs

AlreadyRecoveredIfLarger(filename, totalFileSize) ==
  exists(filename) /\ Len(files[filename]) > totalFileSize

\* os.path.exists(filename) and os.path.getsize(filename) == totalFileSize
AlreadyRecovered(filename, totalFileSize) ==
  exists(filename) /\ Len(files[filename]) = totalFileSize

\* the filesystem without directory d (shutil.rmtree)
RmTree(d) == [x \in DOMAIN dirs \ {d} |-> dirs[x]]
\* the files without path p
Unlink(p) == [x \in DOMAIN files \ {p} |-> files[x]]
\* directory d with entry n holding bytes c
PutEntry(d, n, c) == [dirs EXCEPT ![d] = (n :> c) @@ @]

\* a command ends: back at the prompt with its exit status
Finish(result, ret) ==
  /\ pc' = "idle"
  /\ outcome' = result
  /\ exitCode' = ProcessExit(ret)

----------------------------------------------------------------------------
(* main: missing input                                                     *)

MainMissing(path, m) ==
  /\ pc = "idle" /\ ops < MaxOps
  /\ m \in {"copy", "quick"}
  /\ ~isfile(path)
  /\ ops' = ops + 1
  /\ loc' = [NoLoc EXCEPT !.mode = m, !.filepath = path]
  /\ mutated' = FALSE
  /\ Finish("missing", MainReturn(TRUE))
  /\ UNCHANGED <<files, dirs, free, orig, copyRes, joined>>

----------------------------------------------------------------------------
(* splitCopy                                                               *)

SplitCopyBegin(path, output_dir) ==
  /\ pc = "idle" /\ ops < MaxOps
  /\ isfile(path)
  /\ ops' = ops + 1
  /\ orig' = files[path]
  /\ LET fileSize == Len(files[path])
         splitNum == fileSize \div splitSize
         dir == IF output_dir = NoOutDir THEN SplitDirOf(path)
                ELSE OutputDirOf(output_dir)
         l0 == [NoLoc EXCEPT !.mode = "copy", !.filepath = path,
                             !.fileSize = fileSize, !.dir = dir]
     IN IF free[Dirname(path)] < fileSize * 2
        THEN /\ loc' = l0
             /\ mutated' = FALSE
             /\ Finish("nospace", MainReturn(FALSE))
             /\ UNCHANGED <<files, dirs>>
        ELSE IF splitNum = 0
        THEN /\ loc' = [l0 EXCEPT !.splitNum = splitNum]
             /\ mutated' = FALSE
             /\ Finish("nosplit", MainReturn(FALSE))
             /\ UNCHANGED <<files, dirs>>
        ELSE /\ loc' = [l0 EXCEPT !.splitNum = splitNum,
                                  !.remainingSize = fileSize]
             /\ dirs' = (dir :> <<>>) @@ RmTree(dir)
             /\ mutated' = TRUE
             /\ pc' = "copy_for"
             /\ exitCode' = -1
             /\ UNCHANGED <<files, outcome>>
  /\ joined' = <<>>
  /\ UNCHANGED <<free, copyRes>>

\* for i in range(splitNum + 1): open the next part
SplitCopyFor ==
  /\ pc = "copy_for"
  /\ loc.i < loc.splitNum + 1
  /\ LET name == Format02(loc.i)
     IN /\ dirs' = PutEntry(loc.dir, name, <<>>)
        /\ loc' = [loc EXCEPT !.partSize = 0, !.outFile = name]
  /\ pc' = IF loc.remainingSize > splitSize THEN "copy_full" ELSE "copy_last"
  /\ UNCHANGED <<files, free, orig, mutated, outcome, exitCode, copyRes, ops, joined>>

\* as CopyChunk, but the read asks for the whole budget at once
CopyChunkReadsBudget(limit) ==
  /\ LoopTest(loc.partSize, limit)
  /\ LET content == files[loc.filepath]
         data == SubSeq(content, loc.pos + 1, Min(loc.pos + limit, Len(content)))
     IN /\ dirs' = [dirs EXCEPT ![loc.dir][loc.outFile] = @ \o data]
        /\ loc' = [loc EXCEPT !.partSize = @ + chunkSize, !.pos = @ + Len(data)]
  /\ UNCHANGED <<files, free, pc, orig, mutated, outcome, exitCode, copyRes, ops, joined>>

\* one pass of a transfer loop in splitCopy
CopyChunk(limit) ==
  /\ LoopTest(loc.partSize, limit)
  /\ LET data == Read(files[loc.filepath], loc.pos)
     IN /\ dirs' = [dirs EXCEPT ![loc.dir][loc.outFile] = @ \o data]
        /\ loc' = [loc EXCEPT !.partSize = @ + chunkSize, !.pos = @ + Len(data)]
  /\ UNCHANGED <<files, free, pc, orig, mutated, outcome, exitCode, copyRes, ops, joined>>

SplitCopyFullChunk == pc = "copy_full" /\ CopyChunk(splitSize)

SplitCopyFullEnd ==
  /\ pc = "copy_full"
  /\ ~LoopTest(loc.partSize, splitSize)
  /\ loc' = [loc EXCEPT !.remainingSize = @ - splitSize, !.i = @ + 1]
  /\ pc' = "copy_for"
  /\ UNCHANGED <<files, dirs, free, orig, mutated, outcome, exitCode, copyRes, ops, joined>>

SplitCopyLastChunk == pc = "copy_last" /\ CopyChunk(loc.remainingSize)

SplitCopyLastEnd ==
  /\ pc = "copy_last"
  /\ ~LoopTest(loc.partSize, loc.remainingSize)
  /\ loc' = [loc EXCEPT !.i = @ + 1]
  /\ pc' = "copy_for"
  /\ UNCHANGED <<files, dirs, free, orig, mutated, outcome, exitCode, copyRes, ops, joined>>

SplitCopyDone ==
  /\ pc = "copy_for"
  /\ ~(loc.i < loc.splitNum + 1)
  /\ copyRes' = [valid |-> TRUE, orig |-> orig, dir |-> loc.dir,
                 parts |-> dirs[loc.dir], src |-> loc.filepath]
  /\ Finish("ok", MainReturn(FALSE))
  /\ UNCHANGED <<files, dirs, free, loc, orig, mutated, ops, joined>>

----------------------------------------------------------------------------
(* splitQuick                                                              *)

Part00 == <<"0", "0">>

SplitQuickBegin(path) ==
  /\ pc = "idle" /\ ops < MaxOps
  /\ isfile(path)
  /\ ops' = ops + 1
  /\ orig' = files[path]
  /\ joined' = <<>>
  /\ LET fileSize == Len(files[path])
         splitNum == fileSize \div splitSize
         dir == SplitDirOf(path)
         l0 == [NoLoc EXCEPT !.mode = "quick", !.filepath = path,
                             !.fileSize = fileSize, !.dir = dir]
     IN IF free[Dirname(path)] < splitSize
        THEN /\ loc' = l0
             /\ mutated' = FALSE
             /\ Finish("nospace", MainReturn(FALSE))
             /\ UNCHANGED <<files, dirs>>
        ELSE IF splitNum = 0
        THEN /\ loc' = [l0 EXCEPT !.splitNum = splitNum]
             /\ mutated' = FALSE
             /\ Finish("nosplit", MainReturn(FALSE))
             /\ UNCHANGED <<files, dirs>>
        ELSE /\ loc' = [l0 EXCEPT !.splitNum = splitNum,
                          !.finalSplitSize = fileSize - (splitSize * splitNum)]
             /\ dirs' = (dir :> (Part00 :> files[path])) @@ RmTree(dir)
             /\ files' = Unlink(path)
             /\ mutated' = TRUE
             /\ pc' = "quick_final_open"
             /\ exitCode' = -1
             /\ UNCHANGED outcome
  /\ UNCHANGED <<free, copyRes>>

\* seek back by n from the end of part 00 and create the part named i
QuickOpen(n, i) ==
  /\ dirs' = PutEntry(loc.dir, Format02(i), <<>>)
  /\ loc' = [loc EXCEPT !.pos = SeekEnd(dirs[loc.dir][Part00], n),
                        !.outFile = Format02(i), !.partSize = 0]

\* one pass of a transfer loop in splitQuick
QuickChunk(limit) ==
  /\ LoopTest(loc.partSize, limit)
  /\ LET data == Read(dirs[loc.dir][Part00], loc.pos)
     IN /\ dirs' = [dirs EXCEPT ![loc.dir][loc.outFile] = @ \o data]
        /\ loc' = [loc EXCEPT !.partSize = @ + chunkSize, !.pos = @ + Len(data)]
  /\ UNCHANGED <<files, free, pc, orig, mutated, outcome, exitCode, copyRes, ops, joined>>

\* as QuickTruncate, without the seek: truncates where the reads stopped
QuickTruncateNoSeek(n) ==
  dirs' = [dirs EXCEPT ![loc.dir][Part00] = Truncate(@, loc.pos)]

\* as QuickTruncate, but always drops a whole splitSize
QuickTruncateSplitSize(n) ==
  LET p == SeekEnd(dirs[loc.dir][Part00], splitSize)
  IN dirs' = [dirs EXCEPT ![loc.dir][Part00] = Truncate(@, p)]

\* seek back by n from the end of part 00 and truncate there
QuickTruncate(n) ==
  LET p == SeekEnd(dirs[loc.dir][Part00], n)
  IN dirs' = [dirs EXCEPT ![loc.dir][Part00] = Truncate(@, p)]

SplitQuickFinalOpen ==
  /\ pc = "quick_final_open"
  /\ QuickOpen(loc.finalSplitSize, loc.splitNum)
  /\ pc' = "quick_final"
  /\ UNCHANGED <<files, free, orig, mutated, outcome, exitCode, copyRes, ops, joined>>

SplitQuickFinalChunk == pc = "quick_final" /\ QuickChunk(loc.finalSplitSize)

SplitQuickFinalTruncate ==
  /\ pc = "quick_final"
  /\ ~LoopTest(loc.partSize, loc.finalSplitSize)
  /\ QuickTruncate(loc.finalSplitSize)
  /\ loc' = [loc EXCEPT !.i = 0]
  /\ pc' = "quick_for"
  /\ UNCHANGED <<files, free, orig, mutated, outcome, exitCode, copyRes, ops, joined>>

SplitQuickFor ==
  /\ pc = "quick_for"
  /\ loc.i < loc.splitNum - 1
  /\ QuickOpen(splitSize, loc.splitNum - (loc.i + 1))
  /\ pc' = "quick_loop"
  /\ UNCHANGED <<files, free, orig, mutated, outcome, exitCode, copyRes, ops, joined>>

SplitQuickChunk == pc = "quick_loop" /\ QuickChunk(splitSize)

SplitQuickTruncate ==
  /\ pc = "quick_loop"
  /\ ~LoopTest(loc.partSize, splitSize)
  /\ QuickTruncate(splitSize)
  /\ loc' = [loc EXCEPT !.i = @ + 1]
  /\ pc' = "quick_for"
  /\ UNCHANGED <<files, free, orig, mutated, outcome, exitCode, copyRes, ops, joined>>

SplitQuickDone ==
  /\ pc = "quick_for"
  /\ ~(loc.i < loc.splitNum - 1)
  /\ Finish("ok", MainReturn(FALSE))
  /\ UNCHANGED <<files, dirs, free, loc, orig, mutated, copyRes, ops, joined>>

----------------------------------------------------------------------------
(* undoSplit                                                               *)

UndoSplitBegin(splitDir) ==
  /\ pc = "idle" /\ ops < MaxOps
  /\ ops' = ops + 1
  /\ joined' = <<>>
  /\ LET l0 == [NoLoc EXCEPT !.mode = "undo", !.filepath = splitDir,
                             !.dir = splitDir]
     IN IF ~exists(splitDir)
        THEN /\ loc' = l0
             /\ mutated' = FALSE
             /\ Finish("missing", MainReturn(FALSE))
             /\ UNCHANGED files
        ELSE
          LET totalFileSize == TotalSize(dirs[splitDir])
              filename == JoinFilename(splitDir)
              l1 == [l0 EXCEPT !.totalFileSize = totalFileSize]
          IN IF free[Dirname(splitDir)] < totalFileSize
             THEN /\ loc' = l1
                  /\ mutated' = FALSE
                  /\ Finish("nospace", MainReturn(FALSE))
                  /\ UNCHANGED files
             ELSE IF AlreadyRecovered(filename, totalFileSize)
             THEN /\ loc' = [l1 EXCEPT !.filename = filename]
                  /\ mutated' = FALSE
                  /\ Finish("recovered", MainReturn(FALSE))
                  /\ UNCHANGED files
             ELSE /\ loc' = [l1 EXCEPT !.filename = filename,
                               !.names = Sorted({n \in DOMAIN dirs[splitDir] : FnMatch(n)})]
                  /\ files' = (filename :> <<>>) @@ files
                  /\ mutated' = TRUE
                  /\ pc' = "join_for"
                  /\ exitCode' = -1
                  /\ UNCHANGED outcome
  /\ UNCHANGED <<dirs, free, orig, copyRes>>

\* for f in sorted(...): open the next part
UndoSplitFor ==
  /\ pc = "join_for"
  /\ loc.names # <<>>
  /\ LET f == Head(loc.names)
     IN /\ loc' = [loc EXCEPT !.outFile = f, !.partSize = 0, !.pos = 0,
                              !.fileSize = Len(dirs[loc.dir][f])]
        /\ joined' = Append(joined, f)
  /\ pc' = "join_loop"
  /\ UNCHANGED <<files, dirs, free, orig, mutated, outcome, exitCode, copyRes, ops>>

UndoSplitChunk ==
  /\ pc = "join_loop"
  /\ LoopTest(loc.partSize, loc.fileSize)
  /\ LET data == Read(dirs[loc.dir][loc.outFile], loc.pos)
     IN /\ files' = [files EXCEPT ![loc.filename] = @ \o data]
        /\ loc' = [loc EXCEPT !.partSize = @ + chunkSize, !.pos = @ + Len(data)]
  /\ UNCHANGED <<dirs, free, pc, orig, mutated, outcome, exitCode, copyRes, ops, joined>>

UndoSplitEnd ==
  /\ pc = "join_loop"
  /\ ~LoopTest(loc.partSize, loc.fileSize)
  /\ loc' = [loc EXCEPT !.names = Tail(@)]
  /\ pc' = "join_for"
  /\ UNCHANGED <<files, dirs, free, orig, mutated, outcome, exitCode, copyRes, ops, joined>>

UndoSplitDone ==
  /\ pc = "join_for"
  /\ loc.names = <<>>
  /\ Finish("ok", MainReturn(FALSE))
  /\ UNCHANGED <<files, dirs, free, loc, orig, mutated, copyRes, ops, joined>>

----------------------------------------------------------------------------
(* The environment: another program leaves a file in a split directory     *)

AddStray(d, n) ==
  /\ pc = "idle" /\ ops < MaxOps
  /\ d \in DOMAIN dirs
  /\ n \notin DOMAIN dirs[d]
  /\ dirs' = PutEntry(d, n, StrayContent)
  /\ ops' = ops + 1
  /\ loc' = NoLoc   \* the finished command's locals describe the directory no longer
  /\ UNCHANGED <<files, free, pc, orig, mutated, outcome, exitCode, copyRes, joined>>

----------------------------------------------------------------------------

Next ==
  \/ \E p \in InputPaths, m \in {"copy", "quick"} : MainMissing(p, m)
  \/ \E p \in InputPaths, o \in {NoOutDir, OutDirArg} : SplitCopyBegin(p, o)
  \/ SplitCopyFor
  \/ SplitCopyFullChunk
  \/ SplitCopyFullEnd
  \/ SplitCopyLastChunk
  \/ SplitCopyLastEnd
  \/ SplitCopyDone
  \/ \E p \in InputPaths : SplitQuickBegin(p)
  \/ SplitQuickFinalOpen
  \/ SplitQuickFinalChunk
  \/ SplitQuickFinalTruncate
  \/ SplitQuickFor
  \/ SplitQuickChunk
  \/ SplitQuickTruncate
  \/ SplitQuickDone
  \/ \E d \in SplitDirs : UndoSplitBegin(d)
  \/ UndoSplitFor
  \/ UndoSplitChunk
  \/ UndoSplitEnd
  \/ UndoSplitDone
  \/ \E d \in SplitDirs, n \in StrayNames : AddStray(d, n)

Spec == Init /\ [][Next]_vars

----------------------------------------------------------------------------
(* The transfer loop on its own: the loop of splitCopy lines 118-120 run   *)
(* with any byte budget on any stream that holds at least that many bytes  *)
(* after its position.                                                     *)

MaxStream == 8
Src == MountA \o <<"/", "s">>
Dst == MountA \o <<"/", "d">>

InitTransfer ==
  /\ \E n \in 0..MaxStream, p \in 0..MaxStream, B \in 0..MaxStream :
       /\ p + B <= n
       /\ files = (Src :> [k \in 1..n |-> k])
       /\ loc = [NoLoc EXCEPT !.mode = "transfer", !.filepath = Src, !.dir = Dst,
                              !.outFile = Part00, !.remainingSize = B, !.pos = p]
       /\ orig = [k \in 1..(n - p) |-> p + k]
  /\ dirs = (Dst :> (Part00 :> <<>>))
  /\ free = [m \in {MountA, MountB} |-> 0]
  /\ pc = "transfer"
  /\ mutated = FALSE
  /\ outcome = "none"
  /\ exitCode = -1
  /\ copyRes = NoCopy
  /\ ops = 0
  /\ joined = <<>>

TransferChunk == pc = "transfer" /\ CopyChunk(loc.remainingSize)

TransferEnd ==
  /\ pc = "transfer"
  /\ ~LoopTest(loc.partSize, loc.remainingSize)
  /\ pc' = "transfer_done"
  /\ UNCHANGED <<files, dirs, free, loc, orig, mutated, outcome, exitCode, copyRes, ops, joined>>

NextTransfer == TransferChunk \/ TransferEnd

SpecTransfer == InitTransfer /\ [][NextTransfer]_vars

----------------------------------------------------------------------------
(* Properties                                                              *)

IsDigit(c) == \E k \in 1..10 : Digits[k] = c
\* a part name: exactly two ASCII digits
IsPartName(n) == Len(n) = 2 /\ IsDigit(n[1]) /\ IsDigit(n[2])
PartNames(d) == {n \in DOMAIN d : IsPartName(n)}

\* the bytes of the entries listed in names, one after the other
RECURSIVE Concat(_, _)
Concat(d, names) ==
  IF names = <<>> THEN <<>> ELSE d[Head(names)] \o Concat(d, Tail(names))

\* the names of the parts with the indices lo..hi, ascending
PartRange(lo, hi) == [k \in 1..(hi - lo + 1) |-> Format02(lo + k - 1)]

CopyDone == pc = "idle" /\ loc.mode = "copy" /\ outcome = "ok"
QuickDone == pc = "idle" /\ loc.mode = "quick" /\ outcome = "ok"
JoinDone == pc = "idle" /\ loc.mode = "undo" /\ outcome \in {"ok", "recovered"}

\* C1 (as claimed): after a copy-mode split of F, joining the directory the
\* split produced leaves a combined file whose bytes are those of F.
C1_RoundTrip ==
  (JoinDone /\ copyRes.valid /\ loc.dir = copyRes.dir
     /\ dirs[loc.dir] = copyRes.parts)
  => files[loc.filename] = copyRes.orig

\* C2 (as claimed): a copy-mode split of k*splitSize + r bytes leaves k+1
\* parts when r > 0 and k parts when r = 0; the first k hold splitSize bytes,
\* the last holds r bytes when r > 0 and does not exist when r = 0.
C2_PartSizeAsClaimed ==
  CopyDone =>
    LET k == loc.fileSize \div splitSize
        r == loc.fileSize % splitSize
        d == dirs[loc.dir]
    IN /\ DOMAIN d = {Format02(j) : j \in 0..(IF r > 0 THEN k ELSE k - 1)}
       /\ \A j \in 0..(k - 1) : Len(d[Format02(j)]) = splitSize
       /\ r > 0 => Len(d[Format02(k)]) = r

\* C2 (amended): a copy-mode split of k*splitSize + r bytes always leaves
\* k+1 parts; the first k hold splitSize bytes and the last holds r bytes,
\* so it is an empty file when r = 0.
C2_PartSize ==
  CopyDone =>
    LET k == loc.fileSize \div splitSize
        r == loc.fileSize % splitSize
        d == dirs[loc.dir]
    IN /\ k >= 1
       /\ DOMAIN d = {Format02(j) : j \in 0..k}
       /\ \A j \in 0..(k - 1) : Len(d[Format02(j)]) = splitSize
       /\ Len(d[Format02(k)]) = r

C2_Witness ==
  /\ CopyDone
  /\ loc.fileSize = 3 * splitSize
  /\ dirs[loc.dir][Format02(3)] = <<>>

\* C3: a quick-mode split leaves the same part names with the same bytes as
\* a copy-mode split of the same input; quick mode leaves no file at the
\* original path, copy mode leaves the original unchanged.
C3_QuickEquivalence ==
  /\ (QuickDone /\ copyRes.valid /\ copyRes.orig = orig)
       => dirs[loc.dir] = copyRes.parts
  /\ QuickDone => ~exists(loc.filepath)
  /\ CopyDone => (isfile(loc.filepath) /\ files[loc.filepath] = orig)

C3_Witness ==
  /\ QuickDone /\ copyRes.valid /\ copyRes.orig = orig
  /\ loc.fileSize = 2 * splitSize
  /\ dirs[loc.dir] = copyRes.parts

\* C4 (as claimed): the combined-file path join derives from the directory
\* split derives from P is P.
C4_NameRoundTrip ==
  \A P \in InputPaths :
    (loc.mode = "undo" /\ loc.dir = SplitDirOf(P) /\ loc.filename # <<>>)
      => loc.filename = P

\* C5 (as claimed): a command whose input is missing changes nothing and
\* exits with status 1; status 0 is produced only on success.
C5_MissingInputExit ==
  /\ (pc = "idle" /\ outcome = "missing") => (~mutated /\ exitCode = 1)
  /\ (pc = "idle" /\ ops > 0 /\ loc.mode # "none" /\ exitCode = 0)
       => outcome \in {"ok", "nosplit", "recovered"}

\* C6 (as claimed): when the volume the parts directory lies on has less than
\* 2 * fileSize free, a copy-mode split ends at once without having changed
\* the filesystem and without having split anything (an early "no split
\* needed" report counts as such an end here).
C6_NoSpaceAbort ==
  (loc.mode = "copy" /\ loc.dir # <<>>
     /\ free[Dirname(loc.dir)] < 2 * loc.fileSize)
  => (pc = "idle" /\ outcome \in {"nospace", "nosplit"} /\ ~mutated)

\* a join of directory d starts in this step
JoinRuns(d) ==
  pc = "idle" /\ ops' = ops + 1 /\ loc'.mode = "undo" /\ loc'.dir = d /\ d \in DOMAIN dirs

\* C7 (as claimed): a join whose combined file exists with the total size of
\* the two-digit parts writes nothing and ends as the "already recovered"
\* no-op, whatever else the directory holds.
C7_IdempotentJoinAsClaimed ==
  [][\A d \in SplitDirs :
       (/\ JoinRuns(d)
        /\ isfile(JoinFilename(d))
        /\ Len(files[JoinFilename(d)]) =
             TotalSize([n \in PartNames(dirs[d]) |-> dirs[d][n]]))
       => (files' = files /\ dirs' = dirs /\ pc' = "idle" /\ outcome' = "recovered")]_vars

\* C7 (amended): a join whose combined file exists with the total size of
\* all regular files of the directory (parts or not), the free-space check
\* passing, writes nothing and ends as the "already recovered" no-op.
C7_IdempotentJoin ==
  [][\A d \in SplitDirs :
       (/\ JoinRuns(d)
        /\ isfile(JoinFilename(d))
        /\ Len(files[JoinFilename(d)]) = TotalSize(dirs[d])
        /\ free[Dirname(d)] >= TotalSize(dirs[d]))
       => (files' = files /\ dirs' = dirs /\ pc' = "idle" /\ outcome' = "recovered")]_vars

C7_Witness ==
  /\ pc = "idle" /\ loc.mode = "undo" /\ outcome = "recovered"
  /\ ~mutated
  /\ Len(files[loc.filename]) = TotalSize(dirs[loc.dir])

TransferDone == pc = "transfer_done"

QuickLowestComplete ==
  CASE pc = "quick_final_open" -> loc.splitNum + 1
    [] pc = "quick_final" ->
         IF LoopTest(loc.partSize, loc.finalSplitSize)
         THEN loc.splitNum + 1 ELSE loc.splitNum
    [] pc = "quick_for" -> loc.splitNum - loc.i
    [] pc = "quick_loop" ->
         IF LoopTest(loc.partSize, splitSize)
         THEN loc.splitNum - loc.i ELSE loc.splitNum - (loc.i + 1)
    [] OTHER -> 1

InQuick ==
  \/ pc \in {"quick_final_open", "quick_final", "quick_for", "quick_loop"}
  \/ QuickDone

\* C9: at every point of a quick-mode split after the move, part 00 cut to
\* the bytes the complete parts do not hold, followed by the complete parts
\* in ascending order, is the original file; the parts present are 00, the
\* complete ones and at most the one being written, which is the next lower
\* index.
C9_QuickCrashConsistent ==
  InQuick =>
    LET d == dirs[loc.dir]
        lo == QuickLowestComplete
        tail == Concat(d, PartRange(lo, loc.splitNum))
        keep == Len(orig) - Len(tail)
        present == {j \in 1..loc.splitNum : Format02(j) \in DOMAIN d}
    IN /\ keep >= 0
       /\ Len(d[Part00]) >= keep
       /\ SubSeq(d[Part00], 1, keep) \o tail = orig
       /\ lo..loc.splitNum \subseteq present
       /\ present \subseteq (lo - 1)..loc.splitNum
       /\ DOMAIN d = {Part00} \cup {Format02(j) : j \in present}
       /\ (lo - 1) \in present => pc \in {"quick_final", "quick_loop"}

C9_Witness ==
  /\ pc = "quick_loop"
  /\ ~LoopTest(loc.partSize, splitSize)
  /\ loc.splitNum = 3 /\ loc.i = 1
  /\ Len(dirs[loc.dir][Part00]) = 2 * splitSize

\* C10 (as claimed): join transfers exactly the entries named by two ASCII
\* digits, each once, in ascending order of name.
C10_JoinSelection ==
  (pc = "idle" /\ loc.mode = "undo" /\ outcome = "ok")
  => joined = Sorted(PartNames(dirs[loc.dir]))

====
